---- MODULE Spec2Model ----
(***************************************************************************)
(* The setup script scripts/upsert-connections.ts of the Chargebee /        *)
(* Hookdeck demo: one run upserts a Hookdeck Source, three Connections and  *)
(* then creates or updates the Chargebee webhook endpoint.  The two remote  *)
(* services are modelled by their resource tables; every await of the       *)
(* script is a separate step, so runs started from two terminals can        *)
(* interleave between a request and its response.                           *)
(*                                                                          *)
(* Further parts: Hookdeck's routing of a request over the Connections      *)
(* (SpecRoute), the endpoint requests as the SDK-based and the fetch-based  *)
(* script build them (SpecRequests), the cleanup script scripts/clean.ts   *)
(* (SpecClean), a setup followed by a cleanup and a second setup            *)
(* (SpecCycle), the application's webhook handlers (SpecHandlers) and the   *)
(* tutorial's idempotent handler on two instances (SpecIdem).               *)
(*                                                                          *)
(* Strings that the code concatenates (URLs) are sequences of their parts;  *)
(* the empty string of a URL is <<>>.  Environment values are plain         *)
(* strings, "" standing for an unset variable.                              *)
(***************************************************************************)
EXTENDS Integers, Sequences, FiniteSets, TLC

(* ------------------------------ bounds --------------------------------- *)

\* Runs of the script started in one behaviour.
MaxRuns == 3

\* Deliveries of events to the idempotent handler in one behaviour.
MaxDeliveries == 4

(* ------------------------- fixed tables (shared.ts) -------------------- *)

PROJECT_SOURCE_NAME == "chargebee"

PROJECT_CONNECTION_NAMES ==
    [customer |-> "chargebee-customer",
     subscription |-> "chargebee-subscription",
     payment |-> "chargebee-payment"]

PROJECT_DESTINATION_NAMES ==
    [customer |-> "chargebee-customer-handler",
     subscription |-> "chargebee-subscription-handler",
     payment |-> "chargebee-payment-handler"]

ALL_WEBHOOK_EVENTS ==
    << "customer_created", "customer_changed", "customer_deleted",
       "customer_moved_in", "customer_moved_out",
       "subscription_created", "subscription_started",
       "subscription_activated", "subscription_changed",
       "subscription_cancelled", "subscription_reactivated",
       "subscription_renewed",
       "subscription_scheduled_cancellation_removed",
       "subscription_changes_scheduled",
       "subscription_scheduled_changes_removed",
       "subscription_shipping_address_updated", "subscription_deleted",
       "subscription_resumed", "subscription_paused",
       "payment_succeeded" >>

ESSENTIAL_WEBHOOK_EVENTS ==
    << "customer_created", "customer_changed", "subscription_created",
       "subscription_renewed", "subscription_changed", "payment_succeeded" >>

\* The list the fetch-based script writes out in its create and its update
\* function instead of importing ALL_WEBHOOK_EVENTS.
eventTypes ==
    << "customer_created", "customer_updated", "customer_deleted",
       "customer_changed", "customer_moved_in", "customer_moved_out",
       "subscription_created", "subscription_started",
       "subscription_activated", "subscription_changed",
       "subscription_cancelled", "subscription_reactivated",
       "subscription_renewed",
       "subscription_scheduled_cancellation_removed",
       "subscription_changes_scheduled",
       "subscription_scheduled_changes_removed",
       "subscription_shipping_address_updated", "subscription_deleted",
       "subscription_paused", "subscription_resumed",
       "payment_succeeded" >>

\* The display name the script looks for and creates the endpoint with.
ENDPOINT_NAME == "Hookdeck Webhook Endpoint"

\* Another endpoint of the same Chargebee site, not made by the script.
OTHER_ENDPOINT_NAME == "Billing Export"

\* The order of the connections array.
ConnectionRoles == << "customer", "subscription", "payment" >>

ConnectionPath ==
    [customer |-> "/webhooks/chargebee/customer",
     subscription |-> "/webhooks/chargebee/subscription",
     payment |-> "/webhooks/chargebee/payments"]

\* Filters that name one event each.
ConnectionFilterExact ==
    [customer |-> [op |-> "$eq", value |-> "customer_created"],
     subscription |-> [op |-> "$eq", value |-> "subscription_created"],
     payment |-> [op |-> "$eq", value |-> "payment_succeeded"]]

ConnectionFilter ==
    [customer |-> [op |-> "$startsWith", value |-> "customer_"],
     subscription |-> [op |-> "$startsWith", value |-> "subscription_"],
     payment |-> [op |-> "$eq", value |-> "payment_succeeded"]]

(* ------------------------- processes and inputs ------------------------ *)

\* The operator's terminal, and a second one (a CI job) running the script.
Procs == {"operator", "ci"}

\* process.argv.slice(2)
Argvs == { <<>>, <<"dev">>, <<"prod">>, <<"PROD">>, <<"staging">> }

\* process.env after dotenv.config()
FullEnv ==
    [HOOKDECK_API_KEY |-> "hk_key",
     CHARGEBEE_API_KEY |-> "cb_key",
     CHARGEBEE_SITE |-> "acme-test",
     CHARGEBEE_WEBHOOK_USERNAME |-> "hookdeck",
     CHARGEBEE_WEBHOOK_PASSWORD |-> "s3cret",
     PROD_DESTINATION_URL |-> "https://app.example.com"]

Envs ==
    { FullEnv,
      [FullEnv EXCEPT !.CHARGEBEE_WEBHOOK_PASSWORD = "rotated"],
      [FullEnv EXCEPT !.PROD_DESTINATION_URL = ""],
      [FullEnv EXCEPT !.HOOKDECK_API_KEY = ""],
      [FullEnv EXCEPT !.CHARGEBEE_SITE = ""] }

\* The command lines tried: the two documented modes under every
\* environment that lets the first request go out, an upper-case mode, and
\* one command line for each way a run ends before its first request.
Inputs ==
    ({ <<"dev">>, <<"prod">> }
        \X { e \in Envs : e.HOOKDECK_API_KEY # "" /\ e.CHARGEBEE_SITE # "" })
    \cup { << <<"PROD">>, FullEnv >>,
           << << >>, FullEnv >>,
           << <<"staging">>, FullEnv >>,
           << << >>, [FullEnv EXCEPT !.CHARGEBEE_SITE = ""] >>,
           << <<"dev">>, [FullEnv EXCEPT !.HOOKDECK_API_KEY = ""] >> }

\* String.prototype.toLowerCase on the arguments of Argvs and on the answers
\* typed at the cleanup script's prompts.
ToLowerCase(s) ==
    IF s = "PROD" THEN "prod"
    ELSE IF s = "YES" THEN "yes"
    ELSE IF s = "Y" THEN "y"
    ELSE s

\* getEnvVar throws when the variable is unset or empty.
GetEnvVarThrows(e, name) == e[name] = ""

GetEnvVar(e, name) == e[name]

(* --------------------- requests built by the script -------------------- *)

\* The Source descriptor passed to upsertHookdeckSource.
SourceRequest(e) ==
    [name |-> PROJECT_SOURCE_NAME,
     type |-> "CHARGEBEE_BILLING",
     config |-> [auth |->
        [username |-> GetEnvVar(e, "CHARGEBEE_WEBHOOK_USERNAME"),
         password |-> GetEnvVar(e, "CHARGEBEE_WEBHOOK_PASSWORD")]]]

\* A createDestination that takes whatever the environment holds.
CreateDestinationThrowsNever(m, e) == FALSE

\* createDestination reads PROD_DESTINATION_URL only outside dev mode.
CreateDestinationThrows(m, e) ==
    m # "dev" /\ GetEnvVarThrows(e, "PROD_DESTINATION_URL")


\* A helper that builds the CLI shape whatever the mode.
CreateDestinationAlwaysCli(m, e, name, path) ==
    [name |-> name, type |-> "CLI", config |-> [path |-> path]]

CreateDestination(m, e, name, path) ==
    [name |-> name,
     type |-> IF m = "dev" THEN "CLI" ELSE "HTTP",
     config |-> IF m = "dev"
                THEN [path |-> path]
                ELSE [url |-> << GetEnvVar(e, "PROD_DESTINATION_URL"), path >>]]


\* Connections that leave source_id unset.
ConnectionsUnbound(m, e, sourceId) ==
    [i \in 1..Len(ConnectionRoles) |->
        LET role == ConnectionRoles[i] IN
        [name |-> PROJECT_CONNECTION_NAMES[role],
         source_id |-> 0,
         destination |-> CreateDestination(m, e,
                            PROJECT_DESTINATION_NAMES[role],
                            ConnectionPath[role]),
         rules |-> << [type |-> "filter",
                       body |-> [event_type |-> ConnectionFilter[role]]] >>]]

\* The connections array, in the order the loop walks it.
Connections(m, e, sourceId) ==
    [i \in 1..Len(ConnectionRoles) |->
        LET role == ConnectionRoles[i] IN
        [name |-> PROJECT_CONNECTION_NAMES[role],
         source_id |-> sourceId,
         destination |-> CreateDestination(m, e,
                            PROJECT_DESTINATION_NAMES[role],
                            ConnectionPath[role]),
         rules |-> << [type |-> "filter",
                       body |-> [event_type |-> ConnectionFilter[role]]] >>]]


\* An update that sends the new URL and leaves the credentials out.
UpdateEndpointParamsUrlOnly(webhookUrl, username, password) ==
    [url |-> webhookUrl,
     api_version |-> "v2",
     basic_auth_username |-> "",
     basic_auth_password |-> "",
     enabled_events |-> ALL_WEBHOOK_EVENTS]

\* An update that also sends a display name.
UpdateEndpointParamsRenaming(webhookUrl, username, password) ==
    [name |-> "Hookdeck",
     url |-> webhookUrl,
     api_version |-> "v2",
     basic_auth_username |-> username,
     basic_auth_password |-> password,
     enabled_events |-> ALL_WEBHOOK_EVENTS]

UpdateEndpointParams(webhookUrl, username, password) ==
    [url |-> webhookUrl,
     api_version |-> "v2",
     basic_auth_username |-> username,
     basic_auth_password |-> password,
     enabled_events |-> ALL_WEBHOOK_EVENTS]



\* A create that subscribes to the tutorial's six essential events only.
CreateEndpointParamsEssential(webhookUrl, username, password) ==
    [name |-> ENDPOINT_NAME,
     url |-> webhookUrl,
     api_version |-> "v2",
     basic_auth_username |-> username,
     basic_auth_password |-> password,
     enabled_events |-> ESSENTIAL_WEBHOOK_EVENTS]

\* A create request built like the update request: it carries no name.
CreateEndpointParamsUnnamed(webhookUrl, username, password) ==
    [name |-> "",
     url |-> webhookUrl,
     api_version |-> "v2",
     basic_auth_username |-> username,
     basic_auth_password |-> password,
     enabled_events |-> ALL_WEBHOOK_EVENTS]

CreateEndpointParams(webhookUrl, username, password) ==
    [name |-> ENDPOINT_NAME,
     url |-> webhookUrl,
     api_version |-> "v2",
     basic_auth_username |-> username,
     basic_auth_password |-> password,
     enabled_events |-> ALL_WEBHOOK_EVENTS]


\* The form bodies the fetch-based script posts to Chargebee.
FetchUpdateBody(webhookUrl, username, password) ==
    [url |-> webhookUrl,
     webhook_events |-> eventTypes,
     api_version |-> "v2",
     webhook_authentication |->
        [type |-> "basic_auth", username |-> username, password |-> password]]

FetchCreateBody(webhookUrl, username, password) ==
    [name |-> ENDPOINT_NAME,
     url |-> webhookUrl,
     webhook_events |-> eventTypes,
     api_version |-> "v2",
     webhook_authentication |->
        [type |-> "basic_auth", username |-> username, password |-> password]]

\* One remote request as the run issued it.
SourceCall(e) ==
    [op |-> "PUT /sources", target |-> PROJECT_SOURCE_NAME,
     body |-> SourceRequest(e)]

ConnectionCall(c) ==
    [op |-> "PUT /connections", target |-> c.name, body |-> c]

ListCall ==
    [op |-> "GET /webhook_endpoints", target |-> "", body |-> <<>>]

UpdateCall(endpointId, webhookUrl, username, password) ==
    [op |-> "POST /webhook_endpoints/{id}", target |-> ToString(endpointId),
     body |-> UpdateEndpointParams(webhookUrl, username, password)]

CreateCall(webhookUrl, username, password) ==
    [op |-> "POST /webhook_endpoints", target |-> "",
     body |-> CreateEndpointParams(webhookUrl, username, password)]

(* ------------------------- the remote services ------------------------- *)

\* The URL Hookdeck assigns to a Source when it creates it.
SourceUrl(id) == << "https://hkdk.events/", ToString(id) >>

HasName(S, name) == \E x \in S : x.name = name

ByName(S, name) == CHOOSE x \in S : x.name = name

\* PUT /sources: create the Source of that name, or update it in place.
HookdeckPutSource(S, body, freshId) ==
    IF HasName(S, body.name)
    THEN { IF s.name = body.name
           THEN [s EXCEPT !.type = body.type, !.config = body.config]
           ELSE s : s \in S }
    ELSE S \cup { [id |-> freshId, name |-> body.name, type |-> body.type,
                   config |-> body.config, url |-> SourceUrl(freshId)] }

\* PUT /connections upserts the inline Destination by name ...
HookdeckPutDestination(D, dest, freshId) ==
    IF HasName(D, dest.name)
    THEN { IF d.name = dest.name
           THEN [d EXCEPT !.type = dest.type, !.config = dest.config]
           ELSE d : d \in D }
    ELSE D \cup { [id |-> freshId, name |-> dest.name, type |-> dest.type,
                   config |-> dest.config] }

\* ... and then the Connection by name, bound to that Destination.
HookdeckPutConnection(C, body, destId, freshId) ==
    IF HasName(C, body.name)
    THEN { IF c.name = body.name
           THEN [c EXCEPT !.source_id = body.source_id,
                          !.destination_id = destId,
                          !.rules = body.rules]
           ELSE c : c \in C }
    ELSE C \cup { [id |-> freshId, name |-> body.name,
                   source_id |-> body.source_id,
                   destination_id |-> destId, rules |-> body.rules] }

\* POST /webhook_endpoints: Chargebee adds an endpoint; names are not keys.
ChargebeeCreate(E, params, freshId) ==
    Append(E, [id |-> freshId, name |-> params.name, url |-> params.url,
               api_version |-> params.api_version,
               basic_auth_username |-> params.basic_auth_username,
               basic_auth_password |-> params.basic_auth_password,
               enabled_events |-> params.enabled_events])

\* POST /webhook_endpoints/{id}: the fields sent replace the stored ones.
ChargebeeUpdate(E, endpointId, params) ==
    [i \in DOMAIN E |->
        IF ToString(E[i].id) = endpointId
        THEN [E[i] EXCEPT !.name = IF "name" \in DOMAIN params
                                   THEN params.name ELSE @,
                          !.url = params.url,
                          !.api_version = params.api_version,
                          !.basic_auth_username = params.basic_auth_username,
                          !.basic_auth_password = params.basic_auth_password,
                          !.enabled_events = params.enabled_events]
        ELSE E[i]]

(* ------------------------ decisions of the script ---------------------- *)

\* chargebee.configure at module level reads the site and the API key.
ConfigureThrows(e) ==
    GetEnvVarThrows(e, "CHARGEBEE_SITE") \/ GetEnvVarThrows(e, "CHARGEBEE_API_KEY")

\* main: the mode argument, lower-cased; "" when there is none.
ParseMode(a) == IF Len(a) = 0 THEN "" ELSE ToLowerCase(a[1])


\* An argument check that only asks for an argument.
InvalidModeAnyString(a) == Len(a) = 0

InvalidMode(a) == Len(a) = 0 \/ ParseMode(a) \notin {"dev", "prod"}

\* setupHookdeckConnections reads these before it issues the Source upsert.
SourceSetupThrows(e) ==
    \/ GetEnvVarThrows(e, "HOOKDECK_API_KEY")
    \/ GetEnvVarThrows(e, "CHARGEBEE_WEBHOOK_USERNAME")
    \/ GetEnvVarThrows(e, "CHARGEBEE_WEBHOOK_PASSWORD")

\* What the process writes to stderr when it ends before its first request,
\* in the order the code reaches the checks: the uncaught error of module
\* initialisation, main's two argument checks, then the error that
\* setupHookdeckConnections throws into main's catch.  << >> when none fires.
StartupError(a, e) ==
    IF ConfigureThrows(e)
    THEN << "Missing required environment variable" >>
    ELSE IF Len(a) = 0
    THEN << "Error: Mode argument required (dev or prod)",
            "Usage: ts-node scripts/upsert-connections.ts <dev|prod>" >>
    ELSE IF InvalidMode(a)
    THEN << "Error: Invalid mode. Must be \"dev\" or \"prod\"" >>
    ELSE IF SourceSetupThrows(e)
    THEN << "Error during setup" >>
    ELSE << >>

\* What main's catch block writes.
CatchMessage == << "Error during setup" >>

\* URL checks that never fire.
MissingUrlIgnored(url) == FALSE

\* !response.url in upsertHookdeckSource, !hookdeckSourceUrl in the caller.
MissingUrl(url) == url = <<>>


\* A listing whose error is rethrown.
FailureIsFatalAlways(op) == TRUE

\* Errors swallowed everywhere.
FailureIsFatalNever(op) == FALSE

\* Which failed requests end the run: makeHttpRequest and the SDK throw, and
\* only getChargebeeWebhookEndpoints catches (it returns []); every other
\* error reaches main's catch, which calls process.exit(1).
FailureIsFatal(op) == op # "GET /webhook_endpoints"


\* A loop that sends every upsert at once instead of awaiting each.
LoopIssuesAtOnce(conns, i) ==
    IF i = 0 THEN [k \in DOMAIN conns |-> ConnectionCall(conns[k])] ELSE << >>

\* A loop that sends every upsert twice.
LoopIssuesTwice(conns, i) ==
    IF i < Len(conns)
    THEN << ConnectionCall(conns[i + 1]), ConnectionCall(conns[i + 1]) >>
    ELSE << >>

\* What the loop issues when it is entered (i = 0) or when the upsert of
\* connection i has returned: the next connection, one at a time.
LoopIssues(conns, i) ==
    IF i < Len(conns) THEN << ConnectionCall(conns[i + 1]) >> ELSE << >>


\* A find that never matches: the script would always create.
FindEndpointNever(existing) == 0

\* A find that returns the last match.
FindEndpointLast(existing) ==
    IF \E i \in DOMAIN existing : existing[i].name = ENDPOINT_NAME
    THEN CHOOSE i \in DOMAIN existing :
            /\ existing[i].name = ENDPOINT_NAME
            /\ \A j \in DOMAIN existing :
                  existing[j].name = ENDPOINT_NAME => j <= i
    ELSE 0

\* existingEndpoints.find(endpoint => endpoint.name === ENDPOINT_NAME):
\* the index of the first match, 0 for undefined.
FindEndpoint(existing) ==
    IF \E i \in DOMAIN existing : existing[i].name = ENDPOINT_NAME
    THEN CHOOSE i \in DOMAIN existing :
            /\ existing[i].name = ENDPOINT_NAME
            /\ \A j \in DOMAIN existing :
                  existing[j].name = ENDPOINT_NAME => i <= j
    ELSE 0


\* A branch that creates whatever the list holds.
BranchCallAlwaysCreate(existing, webhookUrl, e) ==
    CreateCall(webhookUrl, GetEnvVar(e, "CHARGEBEE_WEBHOOK_USERNAME"),
               GetEnvVar(e, "CHARGEBEE_WEBHOOK_PASSWORD"))

\* setupChargebeeWebhook after the list returned: update the endpoint found,
\* or create one.
BranchCall(existing, webhookUrl, e) ==
    LET found == FindEndpoint(existing)
        username == GetEnvVar(e, "CHARGEBEE_WEBHOOK_USERNAME")
        password == GetEnvVar(e, "CHARGEBEE_WEBHOOK_PASSWORD")
    IN IF found # 0
       THEN UpdateCall(existing[found].id, webhookUrl, username, password)
       ELSE CreateCall(webhookUrl, username, password)

(* -------------------------------- state -------------------------------- *)

VARIABLES
    sources, connections, destinations,   \* Hookdeck's tables
    webhook_endpoints,                    \* Chargebee's endpoints, list order
    nextId,                               \* next id a service assigns
    pc,                 \* per terminal: idle, the call awaited, or exited
    argv,               \* the process's arguments (process.argv.slice(2))
    env, mode,          \* the process's environment and its mode argument
    stderr,             \* what the process wrote to stderr when it ended
    sourceResponse,     \* the Source upsert's response ({id, url})
    connIdx,            \* index of the connection whose upsert is awaited
    existingEndpoints,  \* the list setupChargebeeWebhook searches
    calls,              \* the requests issued by the current run, in order
    succeeded, failed,  \* indexes of calls answered with / without success
    exitCode,           \* -1 while running, else the process's exit status
    hweAtStart,         \* endpoints named ENDPOINT_NAME when the run began
    runs,               \* runs started so far
    prev,               \* the run that ended last and, until the next run
                        \* is under way, the one that ended before it
    initialEndpoints,   \* Chargebee's endpoints before the first run
    event,              \* event_type of the request Hookdeck is routing, or ""
    evaluated,          \* Connections whose rules were evaluated for it
    delivered,          \* Destinations the request was forwarded to
    built,              \* an endpoint request as one of the two scripts builds it
    clean,              \* the cleanup script's process (scripts/clean.ts)
    http,               \* a request at one of the application's handlers
    idem                \* the tutorial's idempotent handler and its store

remoteVars == << sources, connections, destinations, webhook_endpoints, nextId >>

localVars == << argv, env, mode, sourceResponse, connIdx, existingEndpoints,
                hweAtStart >>

vars == << sources, connections, destinations, webhook_endpoints, nextId,
           pc, argv, env, mode, stderr, sourceResponse, connIdx,
           existingEndpoints, calls, succeeded, failed, exitCode, hweAtStart,
           runs, prev, initialEndpoints, event, evaluated, delivered,
           built, clean, http, idem >>

\* The variables of the setup script's runs and of the two services.
setupVars == << sources, connections, destinations, webhook_endpoints, nextId,
                pc, argv, env, mode, stderr, sourceResponse, connIdx,
                existingEndpoints, calls, succeeded, failed, exitCode,
                hweAtStart, runs, prev, initialEndpoints >>

\* setupVars without Hookdeck's three tables.
processVars == << webhook_endpoints, nextId, pc, argv, env, mode, stderr,
                  sourceResponse, connIdx, existingEndpoints, calls,
                  succeeded, failed, exitCode, hweAtStart, runs, prev,
                  initialEndpoints >>

\* The variables of Hookdeck's routing of one request.
routeVars == << event, evaluated, delivered >>

\* The variables of the application that receives the webhooks.
appVars == << http, idem >>

\* The two services' tables as one value.
Remote ==
    [sources |-> sources, connections |-> connections,
     destinations |-> destinations, webhook_endpoints |-> webhook_endpoints,
     nextId |-> nextId]

SetRemote(rem) ==
    /\ sources' = rem.sources
    /\ connections' = rem.connections
    /\ destinations' = rem.destinations
    /\ webhook_endpoints' = rem.webhook_endpoints
    /\ nextId' = rem.nextId

NoResponse == [id |-> 0, url |-> <<>>]

\* What is remembered of a run that ended.
RunSummary(outcome, m, e, hwe, rem) ==
    [outcome |-> outcome, mode |-> m, env |-> e, hweAtStart |-> hwe,
     remote |-> rem]

\* How a run ended: "ok" when it exited with 0 and every call succeeded,
\* "degraded" when it exited with 0 although a call failed, else "aborted".
RunOutcome(code, failedCalls) ==
    IF code # 0 THEN "aborted"
    ELSE IF failedCalls = {} THEN "ok" ELSE "degraded"

NoRemote ==
    [sources |-> {}, connections |-> {}, destinations |-> {},
     webhook_endpoints |-> <<>>, nextId |-> 0]

NoRun == RunSummary("none", "", FullEnv, 0, NoRemote)

\* What is remembered of the run before the last: how it ended, what it
\* left behind, and whether the last run had the same mode and environment.
PriorSummary(p, m, e) ==
    [outcome |-> p.outcome, sameConfig |-> p.mode = m /\ p.env = e,
     hweAtStart |-> p.hweAtStart, remote |-> p.remote]

NoPrior ==
    [outcome |-> "none", sameConfig |-> FALSE, hweAtStart |-> 0,
     remote |-> NoRemote]

\* The tables after Hookdeck served PUT /sources with body req.
UpsertSource(rem, req) ==
    [rem EXCEPT
        !.sources = HookdeckPutSource(rem.sources, req, rem.nextId),
        !.nextId = IF HasName(rem.sources, req.name) THEN @ ELSE @ + 1]

\* The tables after Hookdeck served PUT /connections with body req: the
\* inline Destination first, then the Connection.
UpsertConnection(rem, req) ==
    LET newDest == ~HasName(rem.destinations, req.destination.name)
        newConn == ~HasName(rem.connections, req.name)
        D2 == HookdeckPutDestination(rem.destinations, req.destination, rem.nextId)
        connId == IF newDest THEN rem.nextId + 1 ELSE rem.nextId
    IN [rem EXCEPT
           !.destinations = D2,
           !.connections = HookdeckPutConnection(rem.connections, req,
                               ByName(D2, req.destination.name).id, connId),
           !.nextId = IF newConn THEN connId + 1 ELSE connId]

CountNamed(E, name) == Cardinality({ i \in DOMAIN E : E[i].name = name })

\* Requests of run r that were issued and not yet answered.
InFlight(r) ==
    IF pc[r] \in {"idle", "exited"}
    THEN {}
    ELSE (1..Len(calls[r])) \ (succeeded[r] \cup failed[r])

\* An endpoint somebody configured by hand before the script ever ran.
InitialEndpoint(i, name) ==
    [id |-> i, name |-> name, url |-> << "https://old.example.com/hook" >>,
     api_version |-> "v2", basic_auth_username |-> "",
     basic_auth_password |-> "", enabled_events |-> << "invoice_generated" >>]

\* The names, in list order, of the endpoints the Chargebee site may hold
\* before the first run: none, unrelated ones, one left by an earlier setup,
\* and duplicates of the script's name.
InitialEndpointNames ==
    { << >>,
      << OTHER_ENDPOINT_NAME >>,
      << ENDPOINT_NAME >>,
      << OTHER_ENDPOINT_NAME, ENDPOINT_NAME >>,
      << ENDPOINT_NAME, OTHER_ENDPOINT_NAME, ENDPOINT_NAME >> }

InitialEndpointLists ==
    { [i \in DOMAIN names |-> InitialEndpoint(i, names[i])] :
        names \in InitialEndpointNames }

\* No run of the setup script was started yet.
NoProcess ==
    /\ pc = [r \in Procs |-> "idle"]
    /\ argv = [r \in Procs |-> << >>]
    /\ env = [r \in Procs |-> FullEnv]
    /\ stderr = [r \in Procs |-> << >>]
    /\ mode = [r \in Procs |-> ""]
    /\ sourceResponse = [r \in Procs |-> NoResponse]
    /\ connIdx = [r \in Procs |-> 0]
    /\ existingEndpoints = [r \in Procs |-> <<>>]
    /\ calls = [r \in Procs |-> <<>>]
    /\ succeeded = [r \in Procs |-> {}]
    /\ failed = [r \in Procs |-> {}]
    /\ exitCode = [r \in Procs |-> -1]
    /\ hweAtStart = [r \in Procs |-> 0]
    /\ runs = 0
    /\ prev = [last |-> NoRun, prior |-> NoPrior]

\* No request is being routed.
NoRouting ==
    /\ event = ""
    /\ evaluated = {}
    /\ delivered = {}

\* No endpoint request was built.
NoRequest == [script |-> "", input |-> << >>, create |-> << >>, update |-> << >>]

\* The cleanup script was not started.
NoCleanup ==
    [pc |-> "idle", env |-> FullEnv, category |-> "", calls |-> << >>,
     succeeded |-> {}, failed |-> {}, found |-> << >>, todo |-> 0,
     answers |-> << >>, exitCode |-> -1, before |-> NoRemote]

\* No request has reached the application's handlers.
NoHttp ==
    [pc |-> "idle", handler |-> "", route |-> "",
     body |-> [id |-> "", event_type |-> "", hasContent |-> FALSE, entities |-> {}],
     responses |-> << >>, log |-> << >>, dispatched |-> FALSE, thrown |-> FALSE,
     previous |-> << >>]

\* The idempotent handler has served nothing and its store is empty.
NoIdem ==
    [processedEvents |-> {},
     instances |-> [i \in {"web-1", "web-2"} |->
                      [pc |-> "idle", eventId |-> "", claimed |-> FALSE,
                       response |-> 0, failed |-> FALSE, cleanup |-> ""]],
     deliveries |-> 0,
     completed |-> [e \in {"ev_1", "ev_2"} |-> 0]]


Init ==
    /\ sources = {}
    /\ connections = {}
    /\ destinations = {}
    /\ webhook_endpoints \in InitialEndpointLists
    /\ initialEndpoints = webhook_endpoints
    /\ nextId = Len(webhook_endpoints) + 1
    /\ NoProcess
    /\ NoRouting
    /\ built = NoRequest
    /\ clean = NoCleanup
    /\ http = NoHttp
    /\ idem = NoIdem

(* ------------------------------- actions ------------------------------- *)


\* A catch block that rolls back: it deletes the Connections the run upserted.
CatchBlockRollsBack(rem, answered) ==
    [rem EXCEPT !.connections =
        { c \in @ : \A a \in answered :
                       ~(a.op = "PUT /connections" /\ a.target = c.name) }]

\* main's catch block: it reports the error and exits; it sends nothing, so
\* the services' tables stay as the answered requests left them.
CatchBlock(rem, answered) == rem

\* The run goes on: it has issued the requests cs and awaits an answer.
Issue(r, awaited, cs, rem) ==
    /\ pc' = [pc EXCEPT ![r] = awaited]
    /\ calls' = [calls EXCEPT ![r] = cs]
    /\ exitCode' = [exitCode EXCEPT ![r] = -1]
    /\ stderr' = [stderr EXCEPT ![r] = << >>]
    /\ SetRemote(rem)
    /\ prev' = [prev EXCEPT !.prior = NoPrior]
    /\ UNCHANGED << initialEndpoints, routeVars, built, clean, appVars >>

\* The process ends with status code: main returned (0), or an error
\* reached main's catch or escaped module initialisation (1).
Exit(r, code, msgs, cs, rem) ==
    /\ pc' = [pc EXCEPT ![r] = "exited"]
    /\ calls' = [calls EXCEPT ![r] = cs]
    /\ exitCode' = [exitCode EXCEPT ![r] = code]
    /\ stderr' = [stderr EXCEPT ![r] = msgs]
    /\ SetRemote(IF code = 0
                 THEN rem
                 ELSE CatchBlock(rem, { cs[i] : i \in succeeded'[r] }))
    /\ prev' = [last |-> RunSummary(RunOutcome(code, failed'[r]),
                                    mode'[r], env'[r], hweAtStart'[r], Remote'),
                prior |-> PriorSummary(prev.last, mode'[r], env'[r])]
    /\ UNCHANGED << initialEndpoints, routeVars, built, clean, appVars >>

\* A process starts: module initialisation, main's argument checks, and
\* setupHookdeckConnections up to the first await (the Source upsert).
MainBody(r) ==
    \E in \in Inputs :
      LET a == in[1]
          e == in[2]
      IN
        /\ runs' = runs + 1
        /\ argv' = [argv EXCEPT ![r] = a]
        /\ env' = [env EXCEPT ![r] = e]
        /\ mode' = [mode EXCEPT ![r] = ParseMode(a)]
        /\ sourceResponse' = [sourceResponse EXCEPT ![r] = NoResponse]
        /\ connIdx' = [connIdx EXCEPT ![r] = 0]
        /\ existingEndpoints' = [existingEndpoints EXCEPT ![r] = <<>>]
        /\ succeeded' = [succeeded EXCEPT ![r] = {}]
        /\ failed' = [failed EXCEPT ![r] = {}]
        /\ hweAtStart' = [hweAtStart EXCEPT
                             ![r] = CountNamed(webhook_endpoints, ENDPOINT_NAME)]
        /\ IF StartupError(a, e) # << >>
           THEN Exit(r, 1, StartupError(a, e), <<>>, Remote)
           ELSE Issue(r, "source", << SourceCall(e) >>, Remote)

\* The script is run from a terminal for the first time.
Main(r) ==
    /\ pc[r] = "idle"
    /\ MainBody(r)

\* The script is run again after the previous process ended.
Rerun(r) ==
    /\ pc[r] = "exited"
    /\ runs < MaxRuns
    /\ MainBody(r)

\* setupHookdeckConnections after the Source upsert returned resp: the URL
\* checks, the connections array, and the loop's first upsert.
AfterSource(r, resp, rem) ==
    /\ sourceResponse' = [sourceResponse EXCEPT ![r] = resp]
    /\ IF MissingUrl(resp.url) \/ CreateDestinationThrows(mode[r], env[r])
       THEN /\ connIdx' = connIdx
            /\ Exit(r, 1, CatchMessage, calls[r], rem)
       ELSE /\ connIdx' = [connIdx EXCEPT ![r] = 1]
            /\ Issue(r, "connection",
                     calls[r] \o LoopIssues(Connections(mode[r], env[r], resp.id), 0),
                     rem)

\* Hookdeck answers the Source upsert.
SourceResponse(r) ==
    /\ pc[r] = "source"
    /\ UNCHANGED << argv, env, mode, existingEndpoints, hweAtStart, runs >>
    /\ LET i == Len(calls[r])
           req == calls[r][i].body
       IN \/ \E withUrl \in BOOLEAN :
               LET rem == UpsertSource(Remote, req)
                   src == ByName(rem.sources, req.name)
               IN /\ succeeded' = [succeeded EXCEPT ![r] = @ \cup {i}]
                  /\ failed' = failed
                  /\ AfterSource(r,
                        [id |-> src.id, url |-> IF withUrl THEN src.url ELSE <<>>],
                        rem)
          \/ /\ failed' = [failed EXCEPT ![r] = @ \cup {i}]
             /\ succeeded' = succeeded
             /\ IF FailureIsFatal(calls[r][i].op)
                THEN /\ UNCHANGED << sourceResponse, connIdx >>
                     /\ Exit(r, 1, CatchMessage, calls[r], Remote)
                ELSE AfterSource(r, NoResponse, Remote)

\* The loop after the upsert of connection connIdx[r] returned: the next
\* connection, or setupChargebeeWebhook up to the endpoint listing.
AfterConnection(r, rem) ==
    LET next == LoopIssues(Connections(mode[r], env[r], sourceResponse[r].id),
                           connIdx[r])
    IN IF next # << >>
       THEN /\ connIdx' = [connIdx EXCEPT ![r] = @ + 1]
            /\ Issue(r, "connection", calls[r] \o next, rem)
       ELSE /\ connIdx' = connIdx
            /\ Issue(r, "list", Append(calls[r], ListCall), rem)

\* Hookdeck answers a Connection upsert.
ConnectionResponse(r) ==
    /\ pc[r] = "connection"
    /\ UNCHANGED << argv, env, mode, sourceResponse, existingEndpoints,
                    hweAtStart, runs >>
    /\ LET i == Len(calls[r])
           req == calls[r][i].body
       IN \/ /\ succeeded' = [succeeded EXCEPT ![r] = @ \cup {i}]
             /\ failed' = failed
             /\ AfterConnection(r, UpsertConnection(Remote, req))
          \/ /\ failed' = [failed EXCEPT ![r] = @ \cup {i}]
             /\ succeeded' = succeeded
             /\ IF FailureIsFatal(calls[r][i].op)
                THEN /\ connIdx' = connIdx
                     /\ Exit(r, 1, CatchMessage, calls[r], Remote)
                ELSE AfterConnection(r, Remote)

\* setupChargebeeWebhook after getChargebeeWebhookEndpoints returned.
AfterList(r, existing) ==
    LET call == BranchCall(existing, sourceResponse[r].url, env[r])
    IN /\ existingEndpoints' = [existingEndpoints EXCEPT ![r] = existing]
       /\ Issue(r, IF call.op = "POST /webhook_endpoints" THEN "create" ELSE "update",
                Append(calls[r], call), Remote)

\* Chargebee answers the endpoint listing.
ListResponse(r) ==
    /\ pc[r] = "list"
    /\ UNCHANGED << argv, env, mode, sourceResponse, connIdx, hweAtStart, runs >>
    /\ LET i == Len(calls[r])
       IN \/ /\ succeeded' = [succeeded EXCEPT ![r] = @ \cup {i}]
             /\ failed' = failed
             /\ AfterList(r, webhook_endpoints)
          \/ /\ failed' = [failed EXCEPT ![r] = @ \cup {i}]
             /\ succeeded' = succeeded
             /\ IF FailureIsFatal(calls[r][i].op)
                THEN /\ existingEndpoints' = existingEndpoints
                     /\ Exit(r, 1, CatchMessage, calls[r], Remote)
                ELSE AfterList(r, << >>)

\* Chargebee answers the create; main then returns.
CreateResponse(r) ==
    /\ pc[r] = "create"
    /\ UNCHANGED localVars
    /\ runs' = runs
    /\ LET i == Len(calls[r])
           req == calls[r][i]
       IN \/ /\ succeeded' = [succeeded EXCEPT ![r] = @ \cup {i}]
             /\ failed' = failed
             /\ Exit(r, 0, << >>, calls[r],
                     [Remote EXCEPT
                         !.webhook_endpoints =
                             ChargebeeCreate(webhook_endpoints, req.body, nextId),
                         !.nextId = nextId + 1])
          \/ /\ failed' = [failed EXCEPT ![r] = @ \cup {i}]
             /\ succeeded' = succeeded
             /\ IF FailureIsFatal(req.op)
                THEN Exit(r, 1, CatchMessage, calls[r], Remote)
                ELSE Exit(r, 0, << >>, calls[r], Remote)

\* Chargebee answers the update; main then returns.
UpdateResponse(r) ==
    /\ pc[r] = "update"
    /\ UNCHANGED localVars
    /\ runs' = runs
    /\ LET i == Len(calls[r])
           req == calls[r][i]
       IN \/ /\ succeeded' = [succeeded EXCEPT ![r] = @ \cup {i}]
             /\ failed' = failed
             /\ Exit(r, 0, << >>, calls[r],
                     [Remote EXCEPT
                         !.webhook_endpoints =
                             ChargebeeUpdate(webhook_endpoints, req.target, req.body)])
          \/ /\ failed' = [failed EXCEPT ![r] = @ \cup {i}]
             /\ succeeded' = succeeded
             /\ IF FailureIsFatal(req.op)
                THEN Exit(r, 1, CatchMessage, calls[r], Remote)
                ELSE Exit(r, 0, << >>, calls[r], Remote)

Step(r) ==
    \/ SourceResponse(r)
    \/ ConnectionResponse(r)
    \/ ListResponse(r)
    \/ CreateResponse(r)
    \/ UpdateResponse(r)

\* One operator runs the script again and again; runs never overlap.
Next ==
    \/ Main("operator")
    \/ Rerun("operator")
    \/ Step("operator")

Spec == Init /\ [][Next]_vars

\* The script is started once from each of two terminals.
NextRace ==
    \E r \in Procs : Main(r) \/ Step(r)

SpecRace == Init /\ [][NextRace]_vars

(* ---------------------- Hookdeck routes a request ----------------------- *)

\* Event types a request to the Source may carry: the ones the endpoint
\* subscribes to, and others.
EventTypes ==
    { ALL_WEBHOOK_EVENTS[i] : i \in DOMAIN ALL_WEBHOOK_EVENTS }
    \cup { eventTypes[i] : i \in DOMAIN eventTypes }
    \cup { "invoice_generated", "payment_failed", "customer" }

\* String.prototype.startsWith
StartsWith(s, prefix) ==
    Len(s) >= Len(prefix) /\ SubSeq(s, 1, Len(prefix)) = prefix

\* A filter on event_type: { $startsWith: value } or { $eq: value }.
FilterMatches(f, eventType) ==
    IF f.op = "$startsWith" THEN StartsWith(eventType, f.value)
    ELSE eventType = f.value

\* A Connection forwards a request when every filter rule matches it.
RulesMatch(rules, eventType) ==
    \A i \in DOMAIN rules :
        rules[i].type = "filter" =>
            FilterMatches(rules[i].body.event_type, eventType)

\* A Hookdeck project and a Chargebee site without resources.
EmptyProject == [NoRemote EXCEPT !.nextId = 1]

RECURSIVE UpsertConnections(_, _, _)
\* The tables after the loop upserted conns[i..].
UpsertConnections(rem, conns, i) ==
    IF i > Len(conns) THEN rem
    ELSE UpsertConnections(UpsertConnection(rem, conns[i]), conns, i + 1)

\* The Hookdeck tables a run of the script in mode m leaves on an empty
\* project when every call succeeds.
AfterSetup(m, e) ==
    LET rem == UpsertSource(EmptyProject, SourceRequest(e))
        src == ByName(rem.sources, PROJECT_SOURCE_NAME)
    IN UpsertConnections(rem, Connections(m, e, src.id), 1)

\* The project was set up in dev or in prod mode; no request is being routed.
InitRoute ==
    /\ \E m \in {"dev", "prod"} :
          LET rem == AfterSetup(m, FullEnv)
          IN /\ sources = rem.sources
             /\ connections = rem.connections
             /\ destinations = rem.destinations
             /\ nextId = rem.nextId
    /\ webhook_endpoints = << >>
    /\ initialEndpoints = << >>
    /\ NoProcess
    /\ NoRouting
    /\ built = NoRequest
    /\ clean = NoCleanup
    /\ http = NoHttp
    /\ idem = NoIdem

\* A request with event type t arrives at the Source.
Receive(t) ==
    /\ event = ""
    /\ event' = t
    /\ evaluated' = {}
    /\ delivered' = {}
    /\ UNCHANGED << setupVars, built, clean, appVars >>

\* Hookdeck evaluates the rules of one Connection of the Source and, when
\* they match, forwards the request to the Connection's Destination.
Evaluate(c) ==
    /\ event # ""
    /\ c.name \notin evaluated
    /\ c.source_id = ByName(sources, PROJECT_SOURCE_NAME).id
    /\ evaluated' = evaluated \cup { c.name }
    /\ delivered' = IF RulesMatch(c.rules, event)
                    THEN delivered \cup
                           { d.name : d \in { x \in destinations :
                                                 x.id = c.destination_id } }
                    ELSE delivered
    /\ event' = event
    /\ UNCHANGED << setupVars, built, clean, appVars >>

\* Every Connection was evaluated: the request is done with.
Routed ==
    /\ event # ""
    /\ evaluated = { c.name : c \in connections }
    /\ event' = ""
    /\ evaluated' = {}
    /\ delivered' = {}
    /\ UNCHANGED << setupVars, built, clean, appVars >>

NextRoute ==
    \/ \E t \in EventTypes : Receive(t)
    \/ \E c \in connections : Evaluate(c)
    \/ Routed

SpecRoute == InitRoute /\ [][NextRoute]_vars

(* ------------- the endpoint requests of the two scripts ---------------- *)

\* The SDK-based script and the fetch-based one.
Scripts == {"sdk", "fetch"}

\* Arguments of the create and update functions: the mode of the run that
\* calls them, the Source URL, and the credentials.
RequestInputs ==
    [mode : {"dev", "prod"},
     webhookUrl : { SourceUrl(1), SourceUrl(2), SourceUrl(3) },
     username : {"hookdeck", "chargebee"},
     password : {"s3cret", "rotated"}]

InitRequests ==
    /\ sources = {}
    /\ connections = {}
    /\ destinations = {}
    /\ webhook_endpoints = << >>
    /\ initialEndpoints = << >>
    /\ nextId = 1
    /\ NoProcess
    /\ NoRouting
    /\ \E sc \in Scripts, in \in RequestInputs :
          built = [NoRequest EXCEPT !.script = sc, !.input = in]
    /\ clean = NoCleanup
    /\ http = NoHttp
    /\ idem = NoIdem

\* createChargebeeWebhookEndpoint builds its request.
BuildCreate ==
    /\ built.create = << >>
    /\ LET in == built.input
       IN built' = [built EXCEPT !.create =
            IF built.script = "sdk"
            THEN CreateEndpointParams(in.webhookUrl, in.username, in.password)
            ELSE FetchCreateBody(in.webhookUrl, in.username, in.password)]
    /\ UNCHANGED << setupVars, routeVars, clean, appVars >>

\* updateChargebeeWebhookEndpoint builds its request.
BuildUpdate ==
    /\ built.update = << >>
    /\ LET in == built.input
       IN built' = [built EXCEPT !.update =
            IF built.script = "sdk"
            THEN UpdateEndpointParams(in.webhookUrl, in.username, in.password)
            ELSE FetchUpdateBody(in.webhookUrl, in.username, in.password)]
    /\ UNCHANGED << setupVars, routeVars, clean, appVars >>

NextRequests == BuildCreate \/ BuildUpdate

SpecRequests == InitRequests /\ [][NextRequests]_vars

(* -------------------- the cleanup script (clean.ts) -------------------- *)

\* The three passes of main, in order.
Categories == << "connections", "sources", "destinations" >>

\* What the operator may type at a prompt.
Answers == { "yes", "y", "YES", "no", "" }

\* The environments the cleanup is run under.
CleanEnvs == { FullEnv, [FullEnv EXCEPT !.HOOKDECK_API_KEY = ""] }


\* A prompt whose answer is not looked at.
ConfirmActionAny(answer) == TRUE

\* confirmAction resolves to true for "yes" and "y" in any case.
ConfirmAction(answer) ==
    ToLowerCase(answer) = "yes" \/ ToLowerCase(answer) = "y"

\* The names main keeps from each listing.
ProjectNames(cat) ==
    IF cat = "connections"
    THEN { PROJECT_CONNECTION_NAMES[k] : k \in DOMAIN PROJECT_CONNECTION_NAMES }
    ELSE IF cat = "sources"
    THEN { PROJECT_SOURCE_NAME }
    ELSE { PROJECT_DESTINATION_NAMES[k] : k \in DOMAIN PROJECT_DESTINATION_NAMES }

\* A filter that keeps every listed resource.
ProjectFilterKeepsAll(cat, listed) == listed

\* allConnections.filter(...), allSources.filter(...),
\* allDestinations.filter(...)
ProjectFilter(cat, listed) ==
    SelectSeq(listed, LAMBDA x : x.name \in ProjectNames(cat))

\* Errors that are logged and skipped.
CleanupFailureSkipped(op) == FALSE

\* Every request of main is inside its try block and none is caught
\* elsewhere: a failed request reaches the catch, which exits with 1.
CleanupFailureIsFatal(op) == TRUE

RECURSIVE ListOf(_)
\* response.models: the resources of a table, by id.
ListOf(T) ==
    IF T = {} THEN << >>
    ELSE LET x == CHOOSE x \in T : \A y \in T : x.id <= y.id
         IN << x >> \o ListOf(T \ {x})

\* Hookdeck's table of a category.
TableOf(cat) ==
    IF cat = "connections" THEN connections
    ELSE IF cat = "sources" THEN sources
    ELSE destinations

\* DELETE /{category}/{id}: Hookdeck drops the resource with that id.  The
\* other tables are left as they are.
HookdeckDelete(T, id) == { x \in T : ToString(x.id) # id }

CleanListCall(cat) ==
    [op |-> "GET", category |-> cat, target |-> ""]

CleanDeleteCall(cat, x) ==
    [op |-> "DELETE", category |-> cat, target |-> ToString(x.id)]

\* Resources that other projects keep in the same Hookdeck workspace.
WithOthers(rem) ==
    [rem EXCEPT
        !.sources = @ \cup { [id |-> rem.nextId, name |-> "shopify",
                              type |-> "SHOPIFY", config |-> << >>,
                              url |-> SourceUrl(rem.nextId)] },
        !.destinations = @ \cup { [id |-> rem.nextId + 1,
                                   name |-> "orders-handler", type |-> "HTTP",
                                   config |-> [url |-> << "https://shop.example.com", "/orders" >>]] },
        !.connections = @ \cup { [id |-> rem.nextId + 2, name |-> "shopify-orders",
                                  source_id |-> rem.nextId,
                                  destination_id |-> rem.nextId + 1,
                                  rules |-> << >>] },
        !.nextId = @ + 3]

\* A setup that aborted after the Source and the customer Connection.
AfterAbortedSetup(m, e) ==
    LET rem == UpsertSource(EmptyProject, SourceRequest(e))
        src == ByName(rem.sources, PROJECT_SOURCE_NAME)
    IN UpsertConnection(rem, Connections(m, e, src.id)[1])

\* The Hookdeck workspaces the cleanup is run against.
CleanupProjects ==
    { EmptyProject,
      WithOthers(EmptyProject),
      AfterSetup("dev", FullEnv),
      WithOthers(AfterSetup("dev", FullEnv)),
      WithOthers(AfterSetup("prod", FullEnv)),
      WithOthers(AfterAbortedSetup("dev", FullEnv)) }

InitClean ==
    /\ \E rem \in CleanupProjects :
          /\ sources = rem.sources
          /\ connections = rem.connections
          /\ destinations = rem.destinations
          /\ nextId = rem.nextId
    /\ webhook_endpoints = << >>
    /\ initialEndpoints = << >>
    /\ NoProcess
    /\ NoRouting
    /\ built = NoRequest
    /\ clean = NoCleanup
    /\ http = NoHttp
    /\ idem = NoIdem

\* The cleanup goes on: it has issued call and awaits its answer.
CleanIssue(c, call, awaited) ==
    [c EXCEPT !.pc = awaited, !.calls = Append(@, call)]

\* main returns (0) or its catch block calls process.exit(1).
CleanExit(c, code) ==
    [c EXCEPT !.pc = "exited", !.exitCode = code]

\* The pass over category cat is over: main lists the next category, or
\* returns after the destinations.
NextPass(c, cat) ==
    IF cat = "connections"
    THEN CleanIssue([c EXCEPT !.category = "sources", !.found = << >>, !.todo = 0],
                    CleanListCall("sources"), "list")
    ELSE IF cat = "sources"
    THEN CleanIssue([c EXCEPT !.category = "destinations", !.found = << >>, !.todo = 0],
                    CleanListCall("destinations"), "list")
    ELSE CleanExit(c, 0)

\* The delete loop after the delete of found[todo] returned: the next
\* resource, one at a time, or the end of the pass.
NextDelete(c) ==
    IF c.todo < Len(c.found)
    THEN CleanIssue([c EXCEPT !.todo = @ + 1],
                    CleanDeleteCall(c.category, c.found[c.todo + 1]), "delete")
    ELSE NextPass(c, c.category)

\* The cleanup script is started: main up to the listing of connections.
CleanMain ==
    /\ clean.pc = "idle"
    /\ \E e \in CleanEnvs :
          LET c == [clean EXCEPT !.env = e,
                                 !.before = [Remote EXCEPT !.webhook_endpoints = << >>,
                                                           !.nextId = 0]]
          IN clean' = IF GetEnvVarThrows(e, "HOOKDECK_API_KEY")
                      THEN CleanExit(c, 1)
                      ELSE CleanIssue([c EXCEPT !.category = "connections"],
                                      CleanListCall("connections"), "list")
    /\ UNCHANGED << setupVars, routeVars, built, appVars >>

\* Hookdeck answers a listing.
CleanListResponse ==
    /\ clean.pc = "list"
    /\ LET i == Len(clean.calls)
           cat == clean.category
           found == ProjectFilter(cat, ListOf(TableOf(cat)))
           ok == [clean EXCEPT !.succeeded = @ \cup {i}]
           ko == [clean EXCEPT !.failed = @ \cup {i}]
       IN \/ clean' = IF Len(found) = 0
                      THEN NextPass(ok, cat)
                      ELSE [ok EXCEPT !.pc = "confirm", !.found = found]
          \/ clean' = IF CleanupFailureIsFatal(clean.calls[i].op)
                      THEN CleanExit(ko, 1)
                      ELSE NextPass(ko, cat)
    /\ UNCHANGED << setupVars, routeVars, built, appVars >>

\* The operator answers the prompt of the current category.
CleanConfirm ==
    /\ clean.pc = "confirm"
    /\ \E a \in Answers :
          LET cat == clean.category
              c == [clean EXCEPT !.answers =
                      [k \in DOMAIN @ \cup {cat} |-> IF k = cat THEN a ELSE @[k]]]
          IN clean' = IF ConfirmAction(a)
                      THEN NextDelete(c)
                      ELSE NextPass(c, cat)
    /\ UNCHANGED << setupVars, routeVars, built, appVars >>

\* Hookdeck answers a delete.
CleanDeleteResponse ==
    /\ clean.pc = "delete"
    /\ LET i == Len(clean.calls)
           call == clean.calls[i]
           cat == clean.category
           ok == [clean EXCEPT !.succeeded = @ \cup {i}]
           ko == [clean EXCEPT !.failed = @ \cup {i}]
       IN \/ /\ clean' = NextDelete(ok)
             /\ connections' = IF cat = "connections"
                               THEN HookdeckDelete(connections, call.target)
                               ELSE connections
             /\ sources' = IF cat = "sources"
                           THEN HookdeckDelete(sources, call.target)
                           ELSE sources
             /\ destinations' = IF cat = "destinations"
                                THEN HookdeckDelete(destinations, call.target)
                                ELSE destinations
          \/ /\ clean' = IF CleanupFailureIsFatal(call.op)
                         THEN CleanExit(ko, 1)
                         ELSE NextDelete(ko)
             /\ UNCHANGED << sources, connections, destinations >>
    /\ UNCHANGED << processVars, routeVars, built, appVars >>

NextClean ==
    \/ CleanMain
    \/ CleanListResponse
    \/ CleanConfirm
    \/ CleanDeleteResponse

SpecClean == InitClean /\ [][NextClean]_vars

(* --------------------- the application's webhook handlers -------------- *)

\* The handler functions of the repository.  Two of them exist in two
\* variants: one reads the entity from content first and answers at once
\* when it is missing, the other reads it inside the case of its event type.
HandlerNames ==
    { "customer.ts:handleCustomerWebhook",
      "typed:handleCustomerWebhook",
      "subscription.ts:handleSubscriptionWebhook",
      "payments.ts:handlePaymentsWebhook",
      "subscription.ts:handlePaymentsWebhook" }

\* The route each function is mounted on (app.post).
HandlerRoute(h) ==
    CASE h \in { "customer.ts:handleCustomerWebhook", "typed:handleCustomerWebhook" }
              -> "/webhooks/chargebee/customer"
      [] h = "subscription.ts:handleSubscriptionWebhook"
              -> "/webhooks/chargebee/subscription"
      [] OTHER -> "/webhooks/chargebee/payments"

\* The member of content the handler works on.
HandlerEntity(h) ==
    CASE h \in { "customer.ts:handleCustomerWebhook", "typed:handleCustomerWebhook" }
              -> "customer"
      [] h = "subscription.ts:handleSubscriptionWebhook" -> "subscription"
      [] OTHER -> "transaction"

\* The event types the handler has a case for.
HandlerCases(h) ==
    CASE h \in { "customer.ts:handleCustomerWebhook", "typed:handleCustomerWebhook" }
              -> { "customer_created", "customer_changed" }
      [] h = "subscription.ts:handleSubscriptionWebhook"
              -> { "subscription_created", "subscription_renewed",
                   "subscription_changed" }
      [] OTHER -> { "payment_succeeded" }

\* Whether the handler tests the entity (if (!customer) ...) before it
\* looks at event_type.
ChecksEntity(h) ==
    h \in { "customer.ts:handleCustomerWebhook",
            "subscription.ts:handlePaymentsWebhook" }

\* A handler that goes on after it has answered the warning.
FallsThroughAfterWarning(h) == FALSE

\* The return statement that follows the warning response.
ReturnsAfterWarning(h) == TRUE

\* The request bodies: content is absent, or an object holding some of the
\* entities.
EntitySets ==
    { {}, {"customer"}, {"subscription"}, {"transaction"},
      {"customer", "subscription", "transaction"} }

BodyEventTypes ==
    { "customer_created", "customer_deleted", "subscription_created",
      "subscription_cancelled", "payment_succeeded", "payment_failed" }

Bodies ==
    [id : {"ev_1", "ev_2"}, event_type : BodyEventTypes,
     hasContent : {TRUE}, entities : EntitySets]
    \cup [id : {"ev_1", "ev_2"}, event_type : BodyEventTypes,
          hasContent : {FALSE}, entities : {{}}]

\* res.status(s).json(...): the response as the client sees it.
JsonResponse(s, received, eventId, warning, error) ==
    [status |-> s, received |-> received, event_id |-> eventId,
     warning |-> warning, error |-> error]

\* The response of the early return.
WarningResponse(h) ==
    JsonResponse(200, TRUE, "", "No " \o HandlerEntity(h) \o " data", "")

\* The response at the end of the try block.
ReceivedResponse(b) == JsonResponse(200, TRUE, b.id, "", "")

\* The response of the catch block.
ErrorResponse == JsonResponse(500, FALSE, "", "", "Internal server error")

\* content?.customer (and content.customer of the typed variants) is an
\* object.
EntityPresent(h, b) == b.hasContent /\ HandlerEntity(h) \in b.entities

\* One call of a handler function on body b: the responses it sends in
\* order, what it logs, whether it reached the dispatch on event_type and
\* whether an exception reached its catch block.
HandlerResult(responses, log, dispatched, thrown) ==
    [responses |-> responses, log |-> log, dispatched |-> dispatched,
     thrown |-> thrown]

Handle(h, b) ==
    LET handled == b.event_type \in HandlerCases(h)
        case == IF handled THEN "case" ELSE "unhandled"
    IN IF ChecksEntity(h)
       THEN IF ~EntityPresent(h, b)
            THEN IF ReturnsAfterWarning(h)
                 THEN HandlerResult(<< WarningResponse(h) >>, << "warn" >>,
                                    FALSE, FALSE)
                 \* without the return, customer.id throws on undefined
                 ELSE HandlerResult(<< WarningResponse(h), ErrorResponse >>,
                                    << "warn", "error" >>, TRUE, TRUE)
            ELSE HandlerResult(<< ReceivedResponse(b) >>, << case >>, TRUE, FALSE)
       ELSE IF handled /\ ~EntityPresent(h, b)
            \* subscription.id (content.subscription) throws a TypeError
            THEN HandlerResult(<< ErrorResponse >>, << "error" >>, TRUE, TRUE)
            ELSE HandlerResult(<< ReceivedResponse(b) >>, << case >>, TRUE, FALSE)

InitHandlers ==
    /\ sources = {}
    /\ connections = {}
    /\ destinations = {}
    /\ webhook_endpoints = << >>
    /\ initialEndpoints = << >>
    /\ nextId = 1
    /\ NoProcess
    /\ NoRouting
    /\ built = NoRequest
    /\ clean = NoCleanup
    /\ http = NoHttp
    /\ idem = NoIdem

\* A request with body b arrives at the route of handler h.
Request(h, b) ==
    /\ http.pc \in {"idle", "done"}
    /\ http' = [NoHttp EXCEPT !.pc = "received", !.handler = h,
                              !.route = HandlerRoute(h), !.body = b]
    /\ UNCHANGED << setupVars, routeVars, built, clean, idem >>

\* The same body is delivered once more to the same route.
Redeliver ==
    /\ http.pc = "done"
    /\ http.previous = << >>
    /\ http' = [http EXCEPT !.pc = "received", !.responses = << >>,
                            !.log = << >>, !.dispatched = FALSE,
                            !.thrown = FALSE,
                            !.previous = << http.responses >>]
    /\ UNCHANGED << setupVars, routeVars, built, clean, idem >>

\* Express calls the handler function, which runs to its end.
HandleRequest ==
    /\ http.pc = "received"
    /\ LET r == Handle(http.handler, http.body)
       IN http' = [http EXCEPT !.pc = "done", !.responses = r.responses,
                               !.log = r.log, !.dispatched = r.dispatched,
                               !.thrown = r.thrown]
    /\ UNCHANGED << setupVars, routeVars, built, clean, idem >>

NextHandlers ==
    \/ \E h \in HandlerNames, b \in Bodies : Request(h, b)
    \/ Redeliver
    \/ HandleRequest

SpecHandlers == InitHandlers /\ [][NextHandlers]_vars

(* ------------- the tutorial's idempotent handler (claim first) --------- *)

\* Instances of the application that share the processedEvents table.
Instances == {"web-1", "web-2"}

\* Ids of the events Chargebee emits.
EventIds == {"ev_1", "ev_2"}

\* A table without the unique constraint: create never reports a duplicate.
CreateThrowsDuplicateNever(table, id) == FALSE

\* db.processedEvents.create on a table whose event_id column is UNIQUE:
\* the insert of an id already there fails with a duplicate-entry error.
CreateThrowsDuplicate(table, id) == id \in table

\* error.code === "ER_DUP_ENTRY" || error.code === "23505"
IsDuplicateCode(code) == code \in {"ER_DUP_ENTRY", "23505"}

\* How the catch block's clean-up ends.  The block names id, which const
\* declares inside the try block: compiled as written the name does not
\* resolve there, and the ReferenceError leaves the catch block before the
\* delete and before the response.  With the declaration visible the delete
\* is sent, and it removes the record or fails and is only logged.
CleanupOutcomes == {"deleted", "deleteFailed", "idNotInScope"}

\* The status the handler sends after the clean-up; 0 when it sends nothing.
StatusAfterCleanup(outcome) == IF outcome = "idNotInScope" THEN 0 ELSE 500

\* One instance's position in the handler.
IdemInstance(at, id, claimed, response, threw, cleanup) ==
    [pc |-> at, eventId |-> id, claimed |-> claimed, response |-> response,
     failed |-> threw, cleanup |-> cleanup]

\* The handler has sent status and returned.
Responded(x, status) == [x EXCEPT !.pc = "done", !.response = status]

InitIdem ==
    /\ sources = {}
    /\ connections = {}
    /\ destinations = {}
    /\ webhook_endpoints = << >>
    /\ initialEndpoints = << >>
    /\ nextId = 1
    /\ NoProcess
    /\ NoRouting
    /\ built = NoRequest
    /\ clean = NoCleanup
    /\ http = NoHttp
    /\ idem = NoIdem

\* The Event Gateway delivers event id to instance i, which starts the
\* handler and awaits findOne.
IdemDeliver(i, id) ==
    /\ idem.instances[i].pc \in {"idle", "done"}
    /\ idem.deliveries < MaxDeliveries
    /\ idem' = [idem EXCEPT
          !.deliveries = @ + 1,
          !.instances[i] = IdemInstance("findOne", id, FALSE, 0, FALSE, "")]
    /\ UNCHANGED << setupVars, routeVars, built, clean, http >>

\* findOne returns: the record (answer 200), null (go on to the claim), or
\* it throws (catch block, nothing claimed, answer 500).
IdemFindOne(i) ==
    LET x == idem.instances[i]
    IN /\ x.pc = "findOne"
       /\ \/ idem' = [idem EXCEPT !.instances[i] =
                        IF x.eventId \in idem.processedEvents
                        THEN Responded(x, 200)
                        ELSE [x EXCEPT !.pc = "create"]]
          \/ idem' = [idem EXCEPT !.instances[i] = Responded(x, 500)]
       /\ UNCHANGED << setupVars, routeVars, built, clean, http >>

\* create returns: the record is inserted and the event claimed; or the
\* insert fails as a duplicate (answer 200); or it fails otherwise and the
\* error is thrown on to the catch block (answer 500).
IdemCreate(i) ==
    LET x == idem.instances[i]
    IN /\ x.pc = "create"
       /\ \/ idem' = IF CreateThrowsDuplicate(idem.processedEvents, x.eventId)
                     THEN [idem EXCEPT !.instances[i] =
                             IF IsDuplicateCode("23505")
                             THEN Responded(x, 200) ELSE Responded(x, 500)]
                     ELSE [idem EXCEPT
                             !.processedEvents = @ \cup {x.eventId},
                             !.instances[i] = [x EXCEPT !.pc = "process",
                                                        !.claimed = TRUE]]
          \/ idem' = [idem EXCEPT !.instances[i] = Responded(x, 500)]
       /\ UNCHANGED << setupVars, routeVars, built, clean, http >>

\* The event is processed: it succeeds and the handler answers 200, or it
\* throws and the catch block starts the clean-up of a claimed event.
IdemProcess(i) ==
    LET x == idem.instances[i]
    IN /\ x.pc = "process"
       /\ \/ idem' = [idem EXCEPT !.completed[x.eventId] = @ + 1,
                                  !.instances[i] = Responded(x, 200)]
          \/ idem' = [idem EXCEPT !.instances[i] =
                        IF x.claimed
                        THEN [x EXCEPT !.pc = "cleanup", !.failed = TRUE]
                        ELSE Responded([x EXCEPT !.failed = TRUE], 500)]
       /\ UNCHANGED << setupVars, routeVars, built, clean, http >>

\* The clean-up of the catch block ends and the handler returns.
IdemCleanup(i) ==
    LET x == idem.instances[i]
    IN /\ x.pc = "cleanup"
       /\ \E o \in CleanupOutcomes :
            idem' = [idem EXCEPT
               !.processedEvents = IF o = "deleted" THEN @ \ {x.eventId} ELSE @,
               !.instances[i] = Responded([x EXCEPT !.cleanup = o],
                                          StatusAfterCleanup(o))]
       /\ UNCHANGED << setupVars, routeVars, built, clean, http >>

NextIdem ==
    \E i \in Instances :
       \/ \E id \in EventIds : IdemDeliver(i, id)
       \/ IdemFindOne(i)
       \/ IdemCreate(i)
       \/ IdemProcess(i)
       \/ IdemCleanup(i)

SpecIdem == InitIdem /\ [][NextIdem]_vars

(* ------------------------- vocabulary of the claims -------------------- *)

Operator == "operator"

IsOp(r, i, op) == calls[r][i].op = op

\* Indexes of the requests of run r with operation op.
CallsOf(r, op) == { i \in 1..Len(calls[r]) : IsOp(r, i, op) }

Answered(r) == succeeded[r] \cup failed[r]

HasEndpointNamed(E, name) == \E i \in DOMAIN E : E[i].name = name

\* The last two runs both ended with status 0, every call of both having
\* succeeded, and had the same mode and environment: the script was run
\* twice in succession.
RanTwice ==
    /\ prev.last.outcome = "ok"
    /\ prev.prior.outcome = "ok"
    /\ prev.prior.sameConfig

\* rem holds the one Source and exactly the three Connections of the naming
\* table, each bound to that Source.
HookdeckSetUp(rem) ==
    /\ Cardinality({ s \in rem.sources : s.name = PROJECT_SOURCE_NAME }) = 1
    /\ \A i \in DOMAIN ConnectionRoles :
          LET name == PROJECT_CONNECTION_NAMES[ConnectionRoles[i]]
          IN /\ Cardinality({ c \in rem.connections : c.name = name }) = 1
             /\ ByName(rem.connections, name).source_id
                    = ByName(rem.sources, PROJECT_SOURCE_NAME).id
    /\ Cardinality(rem.connections) = Len(ConnectionRoles)

(* ------------------- setup, then cleanup, then setup again -------------- *)

\* The operator starts the cleanup script once the setup script has ended
\* with status 0.
CleanAfterSetup ==
    /\ pc[Operator] = "exited"
    /\ exitCode[Operator] = 0
    /\ runs = 1
    /\ CleanMain

\* The operator runs the setup script again once the cleanup has ended with
\* status 0.
SetupAfterClean ==
    /\ clean.pc = "exited"
    /\ clean.exitCode = 0
    /\ runs = 1
    /\ Rerun(Operator)

NextCycle ==
    \/ Main(Operator)
    \/ Step(Operator)
    \/ CleanAfterSetup
    \/ CleanListResponse
    \/ CleanConfirm
    \/ CleanDeleteResponse
    \/ SetupAfterClean

SpecCycle == Init /\ [][NextCycle]_vars

(* ------------------------------- claims -------------------------------- *)

\* C1 as stated: from any remote state, a second run with the same mode and
\* environment (all calls succeeding) leaves the remote resource set of the
\* first run - one Source, the three Connections, and a SINGLE endpoint named
\* "Hookdeck Webhook Endpoint" - and creates nothing.
C1_Idempotent_AsStated ==
    RanTwice =>
        /\ prev.last.remote = prev.prior.remote
        /\ HookdeckSetUp(prev.last.remote)
        /\ CountNamed(prev.last.remote.webhook_endpoints, ENDPOINT_NAME) = 1

\* C1 amended: the second run leaves every resource of both services as the
\* first run left it (same ids, nothing created: nextId is part of the
\* tables); the endpoint named "Hookdeck Webhook Endpoint" is single whenever
\* the remote state before the first run held at most one of that name.
C1_Idempotent ==
    RanTwice =>
        /\ prev.last.remote = prev.prior.remote
        /\ HookdeckSetUp(prev.last.remote)
        /\ CountNamed(prev.last.remote.webhook_endpoints, ENDPOINT_NAME) >= 1
        /\ prev.prior.hweAtStart <= 1 =>
              CountNamed(prev.last.remote.webhook_endpoints, ENDPOINT_NAME) = 1

\* The script has just been run twice from a state with one endpoint of the
\* name or none; the second run took the update branch.
C1_Witness ==
    /\ RanTwice
    /\ prev.prior.hweAtStart <= 1
    /\ pc[Operator] = "exited"
    /\ CallsOf(Operator, "POST /webhook_endpoints/{id}") # {}

\* The endpoint listing of run r has been answered.
Listed(r) == \E i \in Answered(r) : IsOp(r, i, "GET /webhook_endpoints")

\* C2: once the listing is answered the run has issued exactly one update,
\* aimed at an endpoint of the list named "Hookdeck Webhook Endpoint", and no
\* create, when the list holds such an endpoint; and exactly one create and
\* no update when it holds none.
C2_BranchSelection ==
    \A r \in Procs :
        Listed(r) =>
            LET updates == CallsOf(r, "POST /webhook_endpoints/{id}")
                creates == CallsOf(r, "POST /webhook_endpoints")
                E == existingEndpoints[r]
            IN IF HasEndpointNamed(E, ENDPOINT_NAME)
               THEN /\ Cardinality(updates) = 1
                    /\ creates = {}
                    /\ \A i \in updates :
                          \E j \in DOMAIN E :
                              /\ E[j].name = ENDPOINT_NAME
                              /\ calls[r][i].target = ToString(E[j].id)
               ELSE /\ Cardinality(creates) = 1
                    /\ updates = {}

\* A run listed an endpoint of the name among others and updated it.
C2_Witness ==
    /\ Listed(Operator)
    /\ HasEndpointNamed(existingEndpoints[Operator], ENDPOINT_NAME)
    /\ HasEndpointNamed(existingEndpoints[Operator], OTHER_ENDPOINT_NAME)
    /\ exitCode[Operator] = 0

\* The operation and target request i of a run must have, by its position.
ExpectedCall(i, call) ==
    IF i = 1 THEN call.op = "PUT /sources"
    ELSE IF i <= 1 + Len(ConnectionRoles)
    THEN /\ call.op = "PUT /connections"
         /\ call.target = PROJECT_CONNECTION_NAMES[ConnectionRoles[i - 1]]
    ELSE IF i = 2 + Len(ConnectionRoles)
    THEN call.op = "GET /webhook_endpoints"
    ELSE /\ i = 3 + Len(ConnectionRoles)
         /\ call.op \in {"POST /webhook_endpoints", "POST /webhook_endpoints/{id}"}

\* C3: the requests of a run come in the order Source, customer,
\* subscription, payment, list, create-or-update; a request is issued only
\* when every earlier one has been answered (the upserts with success), so at
\* most one request of a run is in flight.
C3_TotalOrder ==
    \A r \in Procs :
        /\ \A i \in 1..Len(calls[r]) : ExpectedCall(i, calls[r][i])
        /\ \A i \in 1..Len(calls[r]) :
              i < Len(calls[r]) =>
                  /\ i \in Answered(r)
                  /\ IsOp(r, i, "GET /webhook_endpoints") \/ i \in succeeded[r]
        /\ Cardinality(InFlight(r)) <= 1

\* A run went through all six requests.
C3_Witness ==
    /\ Len(calls[Operator]) = 3 + Len(ConnectionRoles)
    /\ exitCode[Operator] = 0

\* The Source upsert of run r was answered with success but without a url.
SourceWithoutUrl(r) ==
    /\ Len(calls[r]) >= 1
    /\ 1 \in succeeded[r]
    /\ sourceResponse[r].url = << >>

\* C4: when the Source upsert's response has no url the run has exited with
\* status 1 and the Source upsert is the only request it ever issued.
C4_FatalOnMissingUrl ==
    \A r \in Procs :
        SourceWithoutUrl(r) =>
            /\ pc[r] = "exited"
            /\ exitCode[r] = 1
            /\ Len(calls[r]) = 1

C4_Witness == SourceWithoutUrl(Operator)

\* The endpoint listing of run r failed.
ListFailed(r) == \E i \in failed[r] : IsOp(r, i, "GET /webhook_endpoints")

\* C5: when the listing fails the run treats the list as empty and goes on
\* to a create: the create has been issued, and the run has not exited
\* before the create was answered.
C5_FailOpen ==
    \A r \in Procs :
        ListFailed(r) =>
            /\ existingEndpoints[r] = << >>
            /\ Cardinality(CallsOf(r, "POST /webhook_endpoints")) = 1
            /\ CallsOf(r, "POST /webhook_endpoints/{id}") = {}
            /\ IsOp(r, Len(calls[r]), "POST /webhook_endpoints")
            /\ pc[r] = "create" \/ (pc[r] = "exited" /\ Len(calls[r]) \in Answered(r))

\* The listing failed and the run ended with status 0 after its create.
C5_Witness ==
    /\ ListFailed(Operator)
    /\ exitCode[Operator] = 0
    /\ Len(calls[Operator]) \in succeeded[Operator]

\* C6 as stated: runs never overlap and the site began with no endpoint named
\* "Hookdeck Webhook Endpoint"; then whenever a run has ended, however its
\* calls went, at most one endpoint of that name exists.
C6_AtMostOneEndpoint ==
    CountNamed(initialEndpoints, ENDPOINT_NAME) = 0 =>
        (pc[Operator] = "exited" =>
            CountNamed(webhook_endpoints, ENDPOINT_NAME) <= 1)

\* Run r listed with success, found no endpoint of the name, and its create
\* succeeded.
CreatedUnseen(r) ==
    /\ exitCode[r] = 0
    /\ failed[r] = {}
    /\ Listed(r)
    /\ ~HasEndpointNamed(existingEndpoints[r], ENDPOINT_NAME)

\* C7: when the listings of two concurrent runs both showed no endpoint named
\* "Hookdeck Webhook Endpoint" (each run's list was answered before the
\* other's create), both runs create one: two distinct endpoints of that name
\* then exist.
C7_DuplicateRace ==
    (\A r \in Procs : CreatedUnseen(r)) =>
        /\ CountNamed(webhook_endpoints, ENDPOINT_NAME) = 2
        /\ \A i, j \in DOMAIN webhook_endpoints :
              i # j => webhook_endpoints[i].id # webhook_endpoints[j].id

\* Both runs ended with status 0 on a site that had no endpoint of the name,
\* and it now has two.
C7_Witness ==
    /\ \A r \in Procs : CreatedUnseen(r)
    /\ CountNamed(initialEndpoints, ENDPOINT_NAME) = 0
    /\ CountNamed(webhook_endpoints, ENDPOINT_NAME) = 2

\* C8: when a request other than the listing fails, the run has exited with
\* status 1 and the failed request is the last one it issued.
C8_FailureIsFatal ==
    \A r \in Procs :
        \A i \in failed[r] :
            ~IsOp(r, i, "GET /webhook_endpoints") =>
                /\ pc[r] = "exited"
                /\ exitCode[r] = 1
                /\ Len(calls[r]) = i

\* The upsert of the subscription Connection failed.
C8_Witness ==
    \E i \in failed[Operator] :
        /\ IsOp(Operator, i, "PUT /connections")
        /\ calls[Operator][i].target = PROJECT_CONNECTION_NAMES.subscription

\* The resource a successful upsert call wrote is in the services' tables
\* as the request described it.
Present(call) ==
    IF call.op = "PUT /sources"
    THEN \E x \in sources :
            /\ x.name = call.body.name
            /\ x.type = call.body.type
            /\ x.config = call.body.config
    ELSE IF call.op = "PUT /connections"
    THEN \E c \in connections :
            /\ c.name = call.body.name
            /\ c.source_id = call.body.source_id
            /\ c.rules = call.body.rules
            /\ \E d \in destinations :
                  /\ d.id = c.destination_id
                  /\ d.name = call.body.destination.name
                  /\ d.type = call.body.destination.type
                  /\ d.config = call.body.destination.config
    ELSE TRUE

\* C9: a run issues only upserts, the listing and the endpoint create or
\* update, never a delete; and when it has aborted, every Source and
\* Connection it upserted before the failing step is still there as sent.
C9_NoRollback ==
    \A r \in Procs :
        /\ \A i \in 1..Len(calls[r]) :
              calls[r][i].op \in { "PUT /sources", "PUT /connections",
                                   "GET /webhook_endpoints",
                                   "POST /webhook_endpoints",
                                   "POST /webhook_endpoints/{id}" }
        /\ (pc[r] = "exited" /\ exitCode[r] = 1) =>
              \A i \in succeeded[r] : Present(calls[r][i])

\* The run aborted at the subscription Connection, after the Source and the
\* customer Connection were upserted.
C9_Witness ==
    /\ pc[Operator] = "exited"
    /\ exitCode[Operator] = 1
    /\ succeeded[Operator] = {1, 2}
    /\ failed[Operator] = {3}

\* C10 as stated, for a site that began with at most one endpoint of the
\* name: after an aborted run, a run with the same mode and environment in
\* which every call succeeds leaves one Source, exactly the three named
\* Connections, and ONE endpoint named "Hookdeck Webhook Endpoint".
C10_RecoveryByRerun ==
    ( /\ CountNamed(initialEndpoints, ENDPOINT_NAME) <= 1
      /\ prev.last.outcome = "ok"
      /\ prev.prior.outcome = "aborted"
      /\ prev.prior.sameConfig ) =>
        /\ HookdeckSetUp(prev.last.remote)
        /\ CountNamed(prev.last.remote.webhook_endpoints, ENDPOINT_NAME) = 1

\* The variables a run in mode m needs.
RequiredVariables(m) ==
    { "HOOKDECK_API_KEY", "CHARGEBEE_API_KEY", "CHARGEBEE_SITE",
      "CHARGEBEE_WEBHOOK_USERNAME", "CHARGEBEE_WEBHOOK_PASSWORD" }
    \cup (IF m = "prod" THEN { "PROD_DESTINATION_URL" } ELSE {})

MissingRequired(r) ==
    \E name \in RequiredVariables(mode[r]) : env[r][name] = ""

\* C11 as stated: a run whose environment lacks a variable it requires
\* (PROD_DESTINATION_URL included, in prod mode) has exited with a non-zero
\* status and has issued no request.
C11_EnvCheckedFirst ==
    \A r \in Procs :
        (pc[r] # "idle" /\ MissingRequired(r)) =>
            /\ pc[r] = "exited"
            /\ exitCode[r] # 0
            /\ calls[r] = << >>

\* The messages main prints for a missing or an invalid mode argument.
ModeMessages ==
    { "Error: Mode argument required (dev or prod)",
      "Error: Invalid mode. Must be \"dev\" or \"prod\"" }

\* The run ended at the argument check: status 1, a mode message, no request.
RejectedMode(r) ==
    /\ pc[r] = "exited"
    /\ exitCode[r] = 1
    /\ calls[r] = << >>
    /\ Len(stderr[r]) >= 1
    /\ stderr[r][1] \in ModeMessages

RoleOf(call) ==
    CHOOSE role \in DOMAIN PROJECT_CONNECTION_NAMES :
        PROJECT_CONNECTION_NAMES[role] = call.body.name

\* C13: in a dev run every Connection upsert carries a destination of type
\* CLI whose config is the role's fixed path and has no url; in a prod run
\* every one carries a destination of type HTTP whose config is the url
\* PROD_DESTINATION_URL followed by the role's fixed path and has no path.
C13_DestinationShape ==
    \A r \in Procs :
        \A i \in CallsOf(r, "PUT /connections") :
            LET d == calls[r][i].body.destination
                path == ConnectionPath[RoleOf(calls[r][i])]
            IN /\ mode[r] \in {"dev", "prod"}
               /\ mode[r] = "dev" =>
                     /\ d.type = "CLI"
                     /\ DOMAIN d.config = {"path"}
                     /\ d.config.path = path
               /\ mode[r] = "prod" =>
                     /\ d.type = "HTTP"
                     /\ DOMAIN d.config = {"url"}
                     /\ d.config.url = << env[r].PROD_DESTINATION_URL, path >>
                     /\ env[r].PROD_DESTINATION_URL # ""

\* A prod run has issued its three Connection upserts.
C13_Witness ==
    /\ mode[Operator] = "prod"
    /\ Cardinality(CallsOf(Operator, "PUT /connections")) = 3

\* t is in the list either script subscribes the endpoint to.
Subscribed(t) ==
    \/ \E i \in DOMAIN ALL_WEBHOOK_EVENTS : ALL_WEBHOOK_EVENTS[i] = t
    \/ \E i \in DOMAIN eventTypes : eventTypes[i] = t

EndpointsWritten(r) ==
    LET last == calls[r][Len(calls[r])]
    IN IF last.op = "POST /webhook_endpoints/{id}"
       THEN { i \in DOMAIN webhook_endpoints :
                 ToString(webhook_endpoints[i].id) = last.target }
       ELSE IF last.op = "POST /webhook_endpoints"
       THEN { Len(webhook_endpoints) }
       ELSE {}

\* Run r ended with status 0 and its create or update was answered with
\* success.
Reconciled(r) ==
    /\ pc[r] = "exited"
    /\ exitCode[r] = 0
    /\ Len(calls[r]) \in succeeded[r]

\* C15: after a successful run, the endpoint named "Hookdeck Webhook
\* Endpoint" that the run created or updated has the url the run's Source
\* upsert returned, and the basic-auth username and password the run sent in
\* its Source upsert, which are the ones the Source now holds.
C15_SourceEndpointConsistency ==
    Reconciled(Operator) =>
        LET auth == calls[Operator][1].body.config.auth
        IN /\ IsOp(Operator, 1, "PUT /sources")
           /\ Cardinality(EndpointsWritten(Operator)) = 1
           /\ \A i \in EndpointsWritten(Operator) :
                 /\ webhook_endpoints[i].name = ENDPOINT_NAME
                 /\ webhook_endpoints[i].url = sourceResponse[Operator].url
                 /\ webhook_endpoints[i].url
                       = ByName(sources, PROJECT_SOURCE_NAME).url
                 /\ webhook_endpoints[i].basic_auth_username = auth.username
                 /\ webhook_endpoints[i].basic_auth_password = auth.password
                 /\ ByName(sources, PROJECT_SOURCE_NAME).config.auth = auth

\* A run with a rotated password updated an endpoint that an earlier run
\* had created with the old one.
C15_Witness ==
    /\ Reconciled(Operator)
    /\ calls[Operator][Len(calls[Operator])].op = "POST /webhook_endpoints/{id}"
    /\ env[Operator].CHARGEBEE_WEBHOOK_PASSWORD = "rotated"
    /\ runs >= 2
    /\ CountNamed(initialEndpoints, ENDPOINT_NAME) = 0

\* The event list a built endpoint request carries.
EventsOf(body) ==
    IF "enabled_events" \in DOMAIN body THEN body.enabled_events
    ELSE body.webhook_events

CountPrefix(list, prefix) ==
    Cardinality({ i \in DOMAIN list : StartsWith(list[i], prefix) })

\* list holds n distinct identifiers: c of them customer_*, 14
\* subscription_*, and payment_succeeded.
FullList(list, n, c) ==
    /\ Len(list) = n
    /\ Cardinality({ list[i] : i \in DOMAIN list }) = n
    /\ CountPrefix(list, "customer_") = c
    /\ CountPrefix(list, "subscription_") = 14
    /\ \E i \in DOMAIN list : list[i] = "payment_succeeded"
    /\ n = c + 14 + 1

BuiltRequests == { b \in { built.create, built.update } : b # << >> }

NamingTable(cat) ==
    IF cat = "connections"
    THEN { "chargebee-customer", "chargebee-subscription", "chargebee-payment" }
    ELSE IF cat = "sources"
    THEN { "chargebee" }
    ELSE { "chargebee-customer-handler", "chargebee-subscription-handler",
           "chargebee-payment-handler" }

\* The table of a category when the cleanup started.
TableBefore(cat) ==
    IF cat = "connections" THEN clean.before.connections
    ELSE IF cat = "sources" THEN clean.before.sources
    ELSE clean.before.destinations

\* Indexes of the deletes the cleanup issued, all or of one category.
Deletes == { i \in DOMAIN clean.calls : clean.calls[i].op = "DELETE" }

DeletesOf(cat) == { i \in Deletes : clean.calls[i].category = cat }

CategorySet == { Categories[k] : k \in DOMAIN Categories }

\* C18: every delete the cleanup issues addresses the id of a resource that
\* was in the workspace under a name of the naming table of its category,
\* and every resource with another name is still in its table.
C18_CleanupScope ==
    /\ \A i \in Deletes :
          LET call == clean.calls[i]
          IN \E x \in TableBefore(call.category) :
                /\ ToString(x.id) = call.target
                /\ x.name \in NamingTable(call.category)
    /\ clean.pc # "idle" =>
          \A cat \in CategorySet :
              \A x \in TableBefore(cat) :
                  x.name \notin NamingTable(cat) => x \in TableOf(cat)

\* The cleanup deleted the three Connections, the Source and the three
\* Destinations of the project; the other project's resources are there.
C18_Witness ==
    /\ clean.pc = "exited"
    /\ clean.exitCode = 0
    /\ Cardinality(Deletes) = 7
    /\ Deletes \subseteq clean.succeeded
    /\ \E x \in connections : x.name = "shopify-orders"
    /\ \E x \in sources : x.name = "shopify"
    /\ \E x \in destinations : x.name = "orders-handler"

\* The operator answered the prompt of category cat with yes or y.
Affirmed(cat) ==
    /\ cat \in DOMAIN clean.answers
    /\ clean.answers[cat] \in { "yes", "y", "YES", "Y", "Yes" }

\* C19: a delete of a category is issued, and a resource of a category is
\* gone, only when the prompt of that category was answered with yes or y;
\* after any other answer, and before the answer, the category has no delete.
C19_ConfirmationGate ==
    \A cat \in CategorySet :
        /\ DeletesOf(cat) # {} => Affirmed(cat)
        /\ (clean.pc # "idle" /\ TableOf(cat) # TableBefore(cat)) => Affirmed(cat)
        /\ clean.pc = "confirm" /\ clean.category = cat => DeletesOf(cat) = {}

\* The operator declined the connections and confirmed the sources: the
\* Source was deleted and no Connection delete was issued.
C19_Witness ==
    /\ DOMAIN clean.answers = { "connections", "sources" }
    /\ clean.answers["connections"] = "no"
    /\ clean.answers["sources"] = "YES"
    /\ DeletesOf("sources") # {}
    /\ DeletesOf("sources") \subseteq clean.succeeded
    /\ DeletesOf("connections") = {}
    /\ sources # clean.before.sources
    /\ connections = clean.before.connections

\* The resources of a category that the answered deletes removed.
Deleted(cat) ==
    { x \in TableBefore(cat) :
        \E i \in DeletesOf(cat) \cap clean.succeeded :
            clean.calls[i].target = ToString(x.id) }

\* C20: the cleanup has at most one request without an answer, the one it
\* issued last; when a request failed, the cleanup has exited with status 1
\* and the failed request is the last it issued; and at every moment each
\* table holds what it held at the start less the resources whose delete
\* succeeded: nothing deleted comes back, nothing else is removed.
C20_PartialFailure ==
    /\ (DOMAIN clean.calls) \ (clean.succeeded \cup clean.failed)
          \subseteq { Len(clean.calls) }
    /\ clean.failed # {} =>
          /\ clean.pc = "exited"
          /\ clean.exitCode = 1
          /\ clean.failed = { Len(clean.calls) }
    /\ clean.pc # "idle" =>
          \A cat \in CategorySet :
              TableOf(cat) = TableBefore(cat) \ Deleted(cat)

\* The third Connection delete failed after two succeeded: the cleanup
\* exited with 1, two Connections are gone, the third and the Source remain.
C20_Witness ==
    /\ clean.pc = "exited"
    /\ clean.exitCode = 1
    /\ clean.succeeded = {1, 2, 3}
    /\ clean.failed = {4}
    /\ Cardinality(Deleted("connections")) = 2
    /\ \E x \in connections : x.name \in NamingTable("connections")
    /\ \E x \in sources : x.name = "chargebee"


\* The handler has returned from the request it was called with.
Handled == http.pc = "done"

\* The body has the shape {id, event_type, content: {...}}.
Shaped(b) == b.hasContent

\* The handler sent exactly one response, with status s.
AnsweredWith(s) ==
    /\ Len(http.responses) = 1
    /\ http.responses[1].status = s

\* C21: handlers acknowledge receipt.  Every request whose body has the shape
\* {id, event_type, content: {...}} is answered 200 by each handler, whether
\* or not the handler has a case for the event type; an event type without a
\* case is logged as unhandled and still answered 200.
C21_HandlersAcknowledge ==
    (Handled /\ Shaped(http.body)) =>
        /\ AnsweredWith(200)
        /\ http.body.event_type \notin HandlerCases(http.handler) =>
              \E i \in DOMAIN http.log : http.log[i] \in {"unhandled", "warn"}

\* C22: a missing entity is acknowledged.  When content lacks the handler's
\* entity, the handler answers 200 with received: true and does not dispatch
\* on event_type.
C22_MissingEntityAcknowledged ==
    (Handled /\ ~EntityPresent(http.handler, http.body)) =>
        /\ AnsweredWith(200)
        /\ http.responses[1].received
        /\ ~http.dispatched

Processing(id) ==
    { i \in Instances : idem.instances[i].pc = "process"
                        /\ idem.instances[i].eventId = id }

\* C23: the claim-then-process handler prevents duplicate processing.  For
\* every event id, over all interleavings of concurrent and repeated
\* deliveries to instances that share the processedEvents table, at most one
\* instance is processing the event at a time and the processing completes
\* successfully at most once.
C23_NoDuplicateProcessing ==
    \A id \in EventIds :
        /\ Cardinality(Processing(id)) <= 1
        /\ idem.completed[id] <= 1

\* An event was processed successfully by one instance after the processing
\* of it had failed in another instance, which released its claim.
C23_Witness ==
    \E id \in EventIds, i, j \in Instances :
        /\ i # j
        /\ idem.completed[id] = 1
        /\ idem.instances[i].eventId = id
        /\ idem.instances[i].cleanup = "deleted"
        /\ idem.instances[j].eventId = id
        /\ idem.instances[j].pc = "done"
        /\ idem.instances[j].response = 200
        /\ idem.instances[j].claimed

\* Some instance holds the claim of event id: it inserted the record and has
\* not returned.
ClaimHeld(id) ==
    \E i \in Instances :
        /\ idem.instances[i].eventId = id
        /\ idem.instances[i].claimed
        /\ idem.instances[i].pc \in {"process", "cleanup"}

\* C24: the claim-then-process handler allows retries on failure.  Whenever
\* processing fails in the instance that claimed the event, the handler
\* answers 500 and the claim record is removed; hence no event is left
\* with a record nobody holds although it was never processed (a redelivery
\* of such an event is answered 200 without processing).
C24_RetryOnFailure ==
    /\ \A i \in Instances :
          LET x == idem.instances[i]
          IN (x.pc = "done" /\ x.claimed /\ x.failed) =>
                /\ x.response = 500
                /\ x.cleanup = "deleted"
    /\ \A id \in EventIds :
          (id \in idem.processedEvents /\ idem.completed[id] = 0) =>
              ClaimHeld(id)


\* The requests of run r for Connection name.
ConnectionCallsOf(r, name) ==
    { i \in CallsOf(r, "PUT /connections") : calls[r][i].target = name }

\* The endpoint writes of run r: creates and updates.
EndpointWritesOf(r) ==
    CallsOf(r, "POST /webhook_endpoints")
        \cup CallsOf(r, "POST /webhook_endpoints/{id}")

\* C25: no retry within a run.  A run issues at most one Source upsert, at
\* most one upsert per Connection name, at most one endpoint listing and at
\* most one endpoint create or update; a request that failed is never issued
\* again in that run.
C25_NoRetry ==
    \A r \in Procs :
        /\ Cardinality(CallsOf(r, "PUT /sources")) <= 1
        /\ \A k \in DOMAIN ConnectionRoles :
              Cardinality(ConnectionCallsOf(r,
                  PROJECT_CONNECTION_NAMES[ConnectionRoles[k]])) <= 1
        /\ Cardinality(CallsOf(r, "PUT /connections")) <= Len(ConnectionRoles)
        /\ Cardinality(CallsOf(r, "GET /webhook_endpoints")) <= 1
        /\ Cardinality(EndpointWritesOf(r)) <= 1
        /\ \A i \in failed[r] : \A j \in DOMAIN calls[r] :
              j > i => ~( /\ calls[r][j].op = calls[r][i].op
                          /\ calls[r][j].target = calls[r][i].target )

\* A run ended on a failed Connection upsert.
C25_Witness ==
    /\ pc[Operator] = "exited"
    /\ exitCode[Operator] = 1
    /\ \E i \in failed[Operator] : IsOp(Operator, i, "PUT /connections")

\* The list answer of run r holds more than one endpoint of the script's name.
ListedDuplicates(r) ==
    /\ Listed(r)
    /\ \E i \in succeeded[r] : IsOp(r, i, "GET /webhook_endpoints")
    /\ CountNamed(existingEndpoints[r], ENDPOINT_NAME) > 1

\* The position in list of the first endpoint of the script's name.
FirstNamed(list) ==
    CHOOSE i \in DOMAIN list :
        /\ list[i].name = ENDPOINT_NAME
        /\ \A j \in 1..(i - 1) : list[j].name # ENDPOINT_NAME

\* C26: first match on duplicates.  When the list answer holds more than one
\* endpoint named "Hookdeck Webhook Endpoint", the run updates the first of
\* them in list order, issues no create, and leaves every other endpoint as
\* it was; runs never reduce the number of endpoints of that name.
C26_FirstMatch ==
    /\ \A r \in {Operator} :
          ListedDuplicates(r) =>
              LET first == FirstNamed(existingEndpoints[r])
              IN /\ CallsOf(r, "POST /webhook_endpoints") = {}
                 /\ \A i \in CallsOf(r, "POST /webhook_endpoints/{id}") :
                       calls[r][i].target
                           = ToString(existingEndpoints[r][first].id)
                 /\ \A k \in DOMAIN existingEndpoints[r] :
                       k # first => webhook_endpoints[k] = existingEndpoints[r][k]
                 /\ Len(webhook_endpoints) = Len(existingEndpoints[r])
    /\ CountNamed(webhook_endpoints, ENDPOINT_NAME)
          >= CountNamed(initialEndpoints, ENDPOINT_NAME)

\* A run found two endpoints of the script's name and its update succeeded.
C26_Witness ==
    /\ ListedDuplicates(Operator)
    /\ pc[Operator] = "exited"
    /\ \E i \in succeeded[Operator] :
          IsOp(Operator, i, "POST /webhook_endpoints/{id}")

\* The fields of the update request.
UpdateFields ==
    { "url", "api_version", "basic_auth_username", "basic_auth_password",
      "enabled_events" }

\* C27: the update preserves the idempotency key.  The update request carries
\* url, api_version, credentials and the event list and never a name, so the
\* endpoints keep their names and a find by name selects the updated endpoint
\* again; the create request carries the same fields plus the fixed name.
C27_UpdateKeepsName ==
    /\ \A r \in Procs : \A i \in DOMAIN calls[r] :
          LET call == calls[r][i] IN
          /\ call.op = "POST /webhook_endpoints/{id}" =>
                /\ DOMAIN call.body = UpdateFields
                /\ i \in succeeded[r] =>
                      \E k \in DOMAIN webhook_endpoints :
                          /\ ToString(webhook_endpoints[k].id) = call.target
                          /\ webhook_endpoints[k].name = ENDPOINT_NAME
                          /\ FindEndpoint(existingEndpoints[r]) = k
                          /\ Len(existingEndpoints[r]) = Len(webhook_endpoints)
                               => FindEndpoint(webhook_endpoints) = k
          /\ call.op = "POST /webhook_endpoints" =>
                /\ DOMAIN call.body = UpdateFields \cup {"name"}
                /\ call.body.name = ENDPOINT_NAME
                /\ [f \in UpdateFields |-> call.body[f]]
                      = UpdateEndpointParams(sourceResponse[r].url,
                            env[r].CHARGEBEE_WEBHOOK_USERNAME,
                            env[r].CHARGEBEE_WEBHOOK_PASSWORD)
    /\ \A k \in DOMAIN initialEndpoints :
          webhook_endpoints[k].name = initialEndpoints[k].name

\* A run updated the endpoint that an earlier run had created.
C27_Witness ==
    /\ ~HasEndpointNamed(initialEndpoints, ENDPOINT_NAME)
    /\ pc[Operator] = "exited"
    /\ \E i \in succeeded[Operator] :
          IsOp(Operator, i, "POST /webhook_endpoints/{id}")

\* Run r is a prod run whose environment has no PROD_DESTINATION_URL.
ProdWithoutBase(r) ==
    /\ pc[r] # "idle"
    /\ mode[r] = "prod"
    /\ env[r].PROD_DESTINATION_URL = ""

\* C29: prod run without base URL.  In prod mode with PROD_DESTINATION_URL
\* unset or empty the run aborts with a non-zero exit while it builds the
\* Connection descriptors: it issues no Connection upsert and no request to
\* Chargebee, and no Destination is ever stored with a url lacking the base.
C29_ProdWithoutBaseUrl ==
    /\ \A r \in Procs :
          ProdWithoutBase(r) =>
              /\ pc[r] = "exited" => exitCode[r] # 0
              /\ pc[r] \in {"source", "exited"}
              /\ \A i \in DOMAIN calls[r] : IsOp(r, i, "PUT /sources")
    /\ \A d \in destinations :
          d.type = "HTTP" => d.config.url[1] # ""

\* A prod run without the base URL ended after its Source upsert succeeded.
C29_Witness ==
    /\ ProdWithoutBase(Operator)
    /\ pc[Operator] = "exited"
    /\ \E i \in succeeded[Operator] : IsOp(Operator, i, "PUT /sources")


\* The operator confirmed the deletion in every category.
AllConfirmed == \A cat \in CategorySet : Affirmed(cat)

\* A setup in which every call succeeded left one endpoint of the script's
\* name, the cleanup was confirmed in every category, and a second setup in
\* which every call succeeded has just ended.
SetupCleanSetup ==
    /\ runs = 2
    /\ pc[Operator] = "exited"
    /\ prev.last.outcome = "ok"
    /\ prev.prior.outcome = "ok"
    /\ CountNamed(prev.prior.remote.webhook_endpoints, ENDPOINT_NAME) = 1
    /\ clean.pc = "exited"
    /\ AllConfirmed

\* C28: setup, cleanup, setup.  The cleanup script sends nothing to Chargebee
\* and leaves its endpoints alone; so after a successful setup, a cleanup
\* confirmed in every category and a second successful setup there is still
\* exactly one endpoint named "Hookdeck Webhook Endpoint": the second setup
\* took the update branch, and the endpoint's url is the URL that the second
\* setup's Source upsert returned.
C28_SetupCleanupSetup ==
    /\ \A i \in DOMAIN clean.calls :
          /\ clean.calls[i].op \in {"GET", "DELETE"}
          /\ clean.calls[i].category \in CategorySet
    /\ (clean.pc # "idle" /\ runs = 1) =>
          webhook_endpoints = prev.last.remote.webhook_endpoints
    /\ SetupCleanSetup =>
          /\ CountNamed(webhook_endpoints, ENDPOINT_NAME) = 1
          /\ CallsOf(Operator, "POST /webhook_endpoints") = {}
          /\ CallsOf(Operator, "POST /webhook_endpoints/{id}") # {}
          /\ \A k \in DOMAIN webhook_endpoints :
                webhook_endpoints[k].name = ENDPOINT_NAME =>
                    webhook_endpoints[k].url = sourceResponse[Operator].url

\* The cycle ended, and the second setup got a Source URL other than the one
\* the first setup had written to the endpoint.
C28_Witness ==
    /\ SetupCleanSetup
    /\ \E k \in DOMAIN webhook_endpoints :
          /\ webhook_endpoints[k].name = ENDPOINT_NAME
          /\ prev.prior.remote.webhook_endpoints[k].url
                # sourceResponse[Operator].url

====
